---- MODULE Spec2Model ----
(***************************************************************************)
(* Model of linked-release-notes: one invocation of run(config), which     *)
(* resolves the previous tag, locates the two host commits, diffs the host *)
(* history, reads .gitmodules, resolves the submodule's pinned commits,    *)
(* diffs the submodule history, rewrites "#N" references and writes the    *)
(* release_notes output.                                                   *)
(*                                                                         *)
(* Go strings are modelled as sequences of one-character strings, so that  *)
(* Split, TrimSuffix, the semver parser and the regular expression are     *)
(* computed character by character.                                        *)
(***************************************************************************)
EXTENDS Integers, Sequences, FiniteSets, TLC

(***************************************************************************)
(* Bounds of the model.                                                    *)
(***************************************************************************)
MaxTags == 3
PageSize == 2
MaxCommits == 2
MaxTree == 2
MaxLines == 2
MaxFailAt == 9
MaxPages == 3

(***************************************************************************)
(* Characters and the Go strings package.                                  *)
(***************************************************************************)
NL == "\n"

\* The characters used by the model, in ascending byte order.
Ascii ==
  << "\t", "\n", "\r", " ", "#", "+", "-", ".", "/",
     "0", "1", "2", "3", "4", "5", "6", "7", "8", "9",
     ":", "<", "=", "@", "A", "B", "C", "E", "F", "L", "O", "Z", "[", "]", "_",
     "a", "b", "c", "d", "e", "f", "g", "h", "i", "l", "m", "n", "o", "p",
     "r", "s", "t", "u", "v", "x" >>

Chars == {Ascii[i] : i \in 1..Len(Ascii)}

Ord(c) == CHOOSE i \in 1..Len(Ascii) : Ascii[i] = c

Digits == {"0", "1", "2", "3", "4", "5", "6", "7", "8", "9"}

Letters ==
  {"A", "B", "C", "E", "F", "L", "O", "Z",
   "a", "b", "c", "d", "e", "f", "g", "h", "i", "l", "m", "n", "o", "p",
   "r", "s", "t", "u", "v", "x"}

\* unicode.IsSpace on the characters of the model
IsSpace(c) == c \in {"\t", "\n", "\r", " "}

\* s[from:] and s[:to] of Go (0-based, half-open), on 1-based sequences
Drop(s, n) == SubSeq(s, n + 1, Len(s))
Take(s, n) == SubSeq(s, 1, n)

HasPrefix(s, p) == Len(s) >= Len(p) /\ Take(s, Len(p)) = p
HasSuffix(s, p) == Len(s) >= Len(p) /\ Drop(s, Len(s) - Len(p)) = p
TrimPrefix(s, p) == IF HasPrefix(s, p) THEN Drop(s, Len(p)) ELSE s
TrimSuffix(s, p) == IF HasSuffix(s, p) THEN Take(s, Len(s) - Len(p)) ELSE s

\* strings.Contains(s, c) for a one-character c
ContainsChar(s, c) == \E i \in 1..Len(s) : s[i] = c

RECURSIVE TrimLeftSpace(_)
TrimLeftSpace(s) ==
  IF s # <<>> /\ IsSpace(s[1]) THEN TrimLeftSpace(Tail(s)) ELSE s

RECURSIVE TrimRightSpace(_)
TrimRightSpace(s) ==
  IF s # <<>> /\ IsSpace(s[Len(s)]) THEN TrimRightSpace(Take(s, Len(s) - 1)) ELSE s

TrimSpace(s) == TrimRightSpace(TrimLeftSpace(s))

\* strings.Split(s, sep) for a one-character sep: always at least one part
RECURSIVE SplitFrom(_, _, _)
SplitFrom(s, sep, cur) ==
  IF s = <<>> THEN <<cur>>
  ELSE IF s[1] = sep THEN <<cur>> \o SplitFrom(Tail(s), sep, <<>>)
  ELSE SplitFrom(Tail(s), sep, Append(cur, s[1]))

Split(s, sep) == SplitFrom(s, sep, <<>>)

\* strings.Join(parts, sep) for a one-character sep
RECURSIVE Join(_, _)
Join(parts, sep) ==
  IF parts = <<>> THEN <<>>
  ELSE IF Len(parts) = 1 THEN parts[1]
  ELSE parts[1] \o <<sep>> \o Join(Tail(parts), sep)

\* s < t of Go strings: byte-wise lexicographic order
RECURSIVE StrLess(_, _)
StrLess(s, t) ==
  IF t = <<>> THEN FALSE
  ELSE IF s = <<>> THEN TRUE
  ELSE IF s[1] # t[1] THEN Ord(s[1]) < Ord(t[1])
  ELSE StrLess(Tail(s), Tail(t))

(***************************************************************************)
(* golang.org/x/mod/semver, as used by fetchPreviousTag.                   *)
(***************************************************************************)
\* length of the longest prefix of s made of characters of set
RECURSIVE RunLen(_, _)
RunLen(s, set) ==
  IF s # <<>> /\ s[1] \in set THEN 1 + RunLen(Tail(s), set) ELSE 0

\* semver.parseInt: a decimal number without leading zeros, and the rest
ParseInt(v) ==
  IF v = <<>> \/ v[1] \notin Digits THEN [ok |-> FALSE, t |-> <<>>, rest |-> <<>>]
  ELSE LET i == RunLen(v, Digits)
       IN IF v[1] = "0" /\ i # 1 THEN [ok |-> FALSE, t |-> <<>>, rest |-> <<>>]
          ELSE [ok |-> TRUE, t |-> Take(v, i), rest |-> Drop(v, i)]

IsIdentChar(c) == c \in Digits \/ c \in Letters \/ c = "-"

\* semver.isNum / semver.isBadNum
IsNum(v) == RunLen(v, Digits) = Len(v)
IsBadNum(v) == IsNum(v) /\ Len(v) > 1 /\ v[1] = "0"

\* the identifiers of a prerelease or build string (without its first character)
\* are well formed: none empty, and for a prerelease none a number with a leading 0
IdentsOk(body, numeric) ==
  /\ \A k \in 1..Len(body) : IsIdentChar(body[k]) \/ body[k] = "."
  /\ LET ids == Split(body, ".")
     IN \A k \in 1..Len(ids) : ids[k] # <<>> /\ (numeric => ~IsBadNum(ids[k]))

\* semver.parsePrerelease: v starts with "-"; the prerelease ends at "+" or the end
ParsePrerelease(v) ==
  LET i == 1 + RunLen(Tail(v), Chars \ {"+"})
      t == Take(v, i)
  IN IF IdentsOk(Tail(t), TRUE)
     THEN [ok |-> TRUE, t |-> t, rest |-> Drop(v, i)]
     ELSE [ok |-> FALSE, t |-> <<>>, rest |-> <<>>]

\* semver.parseBuild: v starts with "+"; the build runs to the end of the string
ParseBuild(v) ==
  IF IdentsOk(Tail(v), FALSE)
  THEN [ok |-> TRUE, t |-> v, rest |-> <<>>]
  ELSE [ok |-> FALSE, t |-> <<>>, rest |-> <<>>]

BadVersion ==
  [ok |-> FALSE, major |-> <<>>, minor |-> <<>>, patch |-> <<>>, prerelease |-> <<>>]

\* the tail of semver.parse after the patch number: [-prerelease][+build]
ParseSuffix(major, minor, patch, v) ==
  LET pre == IF v # <<>> /\ v[1] = "-" THEN ParsePrerelease(v)
             ELSE [ok |-> TRUE, t |-> <<>>, rest |-> v]
      bld == IF pre.ok /\ pre.rest # <<>> /\ pre.rest[1] = "+" THEN ParseBuild(pre.rest)
             ELSE [ok |-> pre.ok, t |-> <<>>, rest |-> pre.rest]
  IN IF pre.ok /\ bld.ok /\ bld.rest = <<>>
     THEN [ok |-> TRUE, major |-> major, minor |-> minor, patch |-> patch,
           prerelease |-> pre.t]
     ELSE BadVersion

\* semver.parse: vMAJOR[.MINOR[.PATCH[-PRERELEASE][+BUILD]]]
Parse(v) ==
  IF v = <<>> \/ v[1] # "v" THEN BadVersion
  ELSE LET ma == ParseInt(Tail(v))
       IN IF ~ma.ok THEN BadVersion
          ELSE IF ma.rest = <<>>
          THEN [ok |-> TRUE, major |-> ma.t, minor |-> <<"0">>, patch |-> <<"0">>,
                prerelease |-> <<>>]
          ELSE IF ma.rest[1] # "." THEN BadVersion
          ELSE LET mi == ParseInt(Tail(ma.rest))
               IN IF ~mi.ok THEN BadVersion
                  ELSE IF mi.rest = <<>>
                  THEN [ok |-> TRUE, major |-> ma.t, minor |-> mi.t, patch |-> <<"0">>,
                        prerelease |-> <<>>]
                  ELSE IF mi.rest[1] # "." THEN BadVersion
                  ELSE LET pa == ParseInt(Tail(mi.rest))
                       IN IF ~pa.ok THEN BadVersion
                          ELSE ParseSuffix(ma.t, mi.t, pa.t, pa.rest)

\* semver.compareInt: decimal strings without leading zeros
CompareInt(x, y) ==
  IF x = y THEN 0
  ELSE IF Len(x) < Len(y) THEN -1
  ELSE IF Len(x) > Len(y) THEN 1
  ELSE IF StrLess(x, y) THEN -1 ELSE 1

\* the identifier-by-identifier loop of semver.comparePrerelease
RECURSIVE ComparePrereleaseIds(_, _)
ComparePrereleaseIds(xs, ys) ==
  IF xs = <<>> \/ ys = <<>> THEN (IF xs = <<>> THEN -1 ELSE 1)
  ELSE LET dx == xs[1]
           dy == ys[1]
       IN IF dx = dy THEN ComparePrereleaseIds(Tail(xs), Tail(ys))
          ELSE IF IsNum(dx) # IsNum(dy) THEN (IF IsNum(dx) THEN -1 ELSE 1)
          ELSE IF IsNum(dx) /\ Len(dx) < Len(dy) THEN -1
          ELSE IF IsNum(dx) /\ Len(dx) > Len(dy) THEN 1
          ELSE IF StrLess(dx, dy) THEN -1 ELSE 1

\* semver.comparePrerelease: no prerelease is greater than any prerelease
ComparePrerelease(x, y) ==
  IF x = y THEN 0
  ELSE IF x = <<>> THEN 1
  ELSE IF y = <<>> THEN -1
  ELSE ComparePrereleaseIds(Split(Tail(x), "."), Split(Tail(y), "."))

\* semver.Compare: an invalid version is less than a valid one and equal to
\* another invalid one; build metadata is ignored
Compare(v, w) ==
  LET pv == Parse(v)
      pw == Parse(w)
  IN IF ~pv.ok /\ ~pw.ok THEN 0
     ELSE IF ~pv.ok THEN -1
     ELSE IF ~pw.ok THEN 1
     ELSE IF CompareInt(pv.major, pw.major) # 0 THEN CompareInt(pv.major, pw.major)
     ELSE IF CompareInt(pv.minor, pw.minor) # 0 THEN CompareInt(pv.minor, pw.minor)
     ELSE IF CompareInt(pv.patch, pw.patch) # 0 THEN CompareInt(pv.patch, pw.patch)
     ELSE ComparePrerelease(pv.prerelease, pw.prerelease)

\* semver.ByVersion.Less: Compare, then the strings themselves
VersionLess(v, w) ==
  IF Compare(v, w) # 0 THEN Compare(v, w) < 0 ELSE StrLess(v, w)

\* semver.Sort: ascending by VersionLess (a strict total order on strings, so the
\* sorted list does not depend on the sorting algorithm)
RECURSIVE InsertSorted(_, _)
InsertSorted(sorted, v) ==
  IF sorted = <<>> THEN <<v>>
  ELSE IF VersionLess(v, sorted[1]) THEN <<v>> \o sorted
  ELSE <<sorted[1]>> \o InsertSorted(Tail(sorted), v)

RECURSIVE SemverSort(_)
SemverSort(list) ==
  IF list = <<>> THEN <<>>
  ELSE InsertSorted(SemverSort(Tail(list)), list[1])

(***************************************************************************)
(* The pure parts of the ReleaseNotesWriter methods.                       *)
(***************************************************************************)
\* mutant of CollectTags: prereleases are not discarded
RECURSIVE CollectTagsKeepsHyphen(_, _)
CollectTagsKeepsHyphen(tags, releases) ==
  IF releases = <<>> THEN tags
  ELSE LET release == releases[1]
       IN IF release.hasTagName /\ release.TagName # <<>>
          THEN CollectTagsKeepsHyphen(Append(tags, release.TagName), Tail(releases))
          ELSE CollectTagsKeepsHyphen(tags, Tail(releases))

\* fetchPreviousTag, the loop over one page of releases: the tag names that
\* are set, non-empty and hyphen-free are appended to tags
RECURSIVE CollectTags(_, _)
CollectTags(tags, releases) ==
  IF releases = <<>> THEN tags
  ELSE LET release == releases[1]
       IN IF release.hasTagName /\ release.TagName # <<>>
             /\ ~ContainsChar(release.TagName, "-")
          THEN CollectTags(Append(tags, release.TagName), Tail(releases))
          ELSE CollectTags(tags, Tail(releases))

\* mutant of ScanDown: the scan stops at a tag equal to the target
RECURSIVE ScanDownStopsAtEqual(_, _, _)
ScanDownStopsAtEqual(tags, target, i) ==
  IF Compare(target, tags[i]) < 0
  THEN IF i - 1 < 1 THEN tags[Len(tags)] ELSE ScanDownStopsAtEqual(tags, target, i - 1)
  ELSE tags[i]

\* fetchPreviousTag, the downward scan: i is the (1-based) index looked at
RECURSIVE ScanDown(_, _, _)
ScanDown(tags, target, i) ==
  IF Compare(target, tags[i]) <= 0
  THEN IF i - 1 < 1 THEN tags[Len(tags)] ELSE ScanDown(tags, target, i - 1)
  ELSE tags[i]

\* mutant of SelectPreviousTag: with no tag collected, the target tag is taken
SelectPreviousTagFallsBackToTarget(collected, target, old) ==
  LET tags == SemverSort(collected)
  IN IF Len(tags) = 0 THEN target
     ELSE IF target = <<>> THEN tags[Len(tags)]
     ELSE ScanDown(tags, target, Len(tags))

\* fetchPreviousTag after the loop: the new value of rnw.previousTag, given
\* the collected tags, config.Tag and the old value of rnw.previousTag
SelectPreviousTag(collected, target, old) ==
  LET tags == SemverSort(collected)
  IN IF Len(tags) = 0 THEN old
     ELSE IF target = <<>> THEN tags[Len(tags)]
     ELSE ScanDown(tags, target, Len(tags))

\* mutant of ChangeEntries: the whole message is taken, not its first line
RECURSIVE ChangeEntriesWholeMessage(_)
ChangeEntriesWholeMessage(commits) ==
  IF commits = <<>> THEN <<>>
  ELSE IF commits[1].hasMessage
  THEN << <<"*", " ">> \o commits[1].Message >> \o ChangeEntriesWholeMessage(Tail(commits))
  ELSE ChangeEntriesWholeMessage(Tail(commits))

\* getChanges: "* " and the first line of the message of every commit that has one
RECURSIVE ChangeEntries(_)
ChangeEntries(commits) ==
  IF commits = <<>> THEN <<>>
  ELSE IF commits[1].hasMessage
  THEN << <<"*", " ">> \o Split(commits[1].Message, NL)[1] >> \o ChangeEntries(Tail(commits))
  ELSE ChangeEntries(Tail(commits))

\* mutant of FindSubmoduleCommit: the type of the entry is not looked at
RECURSIVE FindSubmoduleCommitAnyType(_, _)
FindSubmoduleCommitAnyType(entries, submodulePath) ==
  IF entries = <<>> THEN <<>>
  ELSE IF entries[1].Path = submodulePath THEN entries[1].SHA
  ELSE FindSubmoduleCommitAnyType(Tail(entries), submodulePath)

\* getSubmoduleCommits: the SHA of the first entry with the path and type "commit",
\* the empty string if there is none
RECURSIVE FindSubmoduleCommit(_, _)
FindSubmoduleCommit(entries, submodulePath) ==
  IF entries = <<>> THEN <<>>
  ELSE IF entries[1].Path = submodulePath /\ entries[1].Type = "commit"
  THEN entries[1].SHA
  ELSE FindSubmoduleCommit(Tail(entries), submodulePath)

S_path == <<"p", "a", "t", "h", " ", "=", " ">>
S_url == <<"u", "r", "l", " ", "=", " ">>
S_git == <<".", "g", "i", "t">>
S_http == <<"h", "t", "t", "p">>
S_gitAt == <<"g", "i", "t", "@">>

\* mutant of RepoOfUrl: the ".git" suffix is kept
RepoOfUrlKeepsGitSuffix(rawUrl, cur) ==
  LET url == TrimSpace(rawUrl)
  IN IF HasPrefix(url, S_http)
     THEN LET parts == Split(url, "/")
          IN IF Len(parts) >= 2
             THEN parts[Len(parts) - 1] \o <<"/">> \o parts[Len(parts)]
             ELSE cur
     ELSE IF HasPrefix(url, S_gitAt)
     THEN LET parts == Split(url, ":")
          IN IF Len(parts) >= 2 THEN parts[2] ELSE cur
     ELSE cur

\* getSubmodulePathRepo, the url branch: owner/repo of a url, or cur when the
\* url has none of the two recognised forms
RepoOfUrl(rawUrl, cur) ==
  LET url == TrimSuffix(TrimSpace(rawUrl), S_git)
  IN IF HasPrefix(url, S_http)
     THEN LET parts == Split(url, "/")
          IN IF Len(parts) >= 2
             THEN parts[Len(parts) - 1] \o <<"/">> \o parts[Len(parts)]
             ELSE cur
     ELSE IF HasPrefix(url, S_gitAt)
     THEN LET parts == Split(url, ":")
          IN IF Len(parts) >= 2 THEN parts[2] ELSE cur
     ELSE cur

\* mutant of ScanManifest: a value that is already set is kept
RECURSIVE ScanManifestFirstWins(_, _, _)
ScanManifestFirstWins(lines, submodulePath, submoduleRepo) ==
  IF lines = <<>> THEN [path |-> submodulePath, repo |-> submoduleRepo]
  ELSE LET line == TrimSpace(lines[1])
           path == IF HasPrefix(line, S_path) /\ submodulePath = <<>>
                   THEN TrimPrefix(line, S_path)
                   ELSE submodulePath
           repo == IF HasPrefix(line, S_url) /\ submoduleRepo = <<>>
                   THEN RepoOfUrl(TrimPrefix(line, S_url), submoduleRepo)
                   ELSE submoduleRepo
       IN ScanManifestFirstWins(Tail(lines), path, repo)

\* getSubmodulePathRepo, the loop over the lines of .gitmodules
RECURSIVE ScanManifest(_, _, _)
ScanManifest(lines, submodulePath, submoduleRepo) ==
  IF lines = <<>> THEN [path |-> submodulePath, repo |-> submoduleRepo]
  ELSE LET line == TrimSpace(lines[1])
           path == IF HasPrefix(line, S_path) THEN TrimPrefix(line, S_path)
                   ELSE submodulePath
           repo == IF HasPrefix(line, S_url)
                   THEN RepoOfUrl(TrimPrefix(line, S_url), submoduleRepo)
                   ELSE submoduleRepo
       IN ScanManifest(Tail(lines), path, repo)

ParseManifest(content) == ScanManifest(Split(content, NL), <<>>, <<>>)

\* \w of Go's regexp: [0-9A-Za-z_]
IsWordChar(c) == c \in Digits \/ c \in Letters \/ c = "_"

\* Length of the match of #\d+($|\W) at the start of s, 0 when there is none.
\* \d+ is greedy and a shorter run of digits is followed by a digit, so the
\* only candidate is the longest run.
MatchLen(s) ==
  IF s = <<>> \/ s[1] # "#" THEN 0
  ELSE LET d == RunLen(Tail(s), Digits)
       IN IF d = 0 THEN 0
          ELSE IF 1 + d = Len(s) THEN 1 + d
          ELSE IF ~IsWordChar(s[2 + d]) THEN 2 + d
          ELSE 0

\* regexp.ReplaceAllStringFunc(s, func(m) { return label + m }): leftmost
\* matches, found from left to right, none overlapping an earlier one
RECURSIVE ReplaceAll(_, _)
ReplaceAll(s, label) ==
  IF s = <<>> THEN <<>>
  ELSE LET m == MatchLen(s)
       IN IF m > 0 THEN label \o Take(s, m) \o ReplaceAll(Drop(s, m), label)
          ELSE <<s[1]>> \o ReplaceAll(Tail(s), label)

\* replaceSubmoduleLinks: every entry rewritten in place
ReplaceSubmoduleLinks(entries, label) ==
  [i \in 1..Len(entries) |-> ReplaceAll(entries[i], label)]

S_changesFrom ==
  <<"#", "#", " ", "C", "h", "a", "n", "g", "e", "s", " ", "f", "r", "o", "m", " ">>

\* mutant of FinalNotes: no submodule section when there are no submodule entries
FinalNotesOmitsEmptySection(ownr, rep, hostChanges, submoduleRepository, subChanges) ==
  S_changesFrom \o ownr \o <<"/">> \o rep \o <<":", NL>> \o Join(hostChanges, NL) \o <<NL>>
  \o (IF subChanges = <<>> THEN <<>>
      ELSE <<NL>> \o S_changesFrom \o submoduleRepository \o <<":", NL>>
           \o Join(subChanges, NL) \o <<NL>>)

\* run: the two Sprintf calls that build finalNotes
FinalNotes(ownr, rep, hostChanges, submoduleRepository, subChanges) ==
  S_changesFrom \o ownr \o <<"/">> \o rep \o <<":", NL>> \o Join(hostChanges, NL) \o <<NL>>
  \o <<NL>> \o S_changesFrom \o submoduleRepository \o <<":", NL>>
  \o Join(subChanges, NL) \o <<NL>>

S_release_notes ==
  <<"r", "e", "l", "e", "a", "s", "e", "_", "n", "o", "t", "e", "s">>
S_EOF == <<"E", "O", "F">>

\* mutant of OutputText: the end marker follows the value without a newline
OutputTextMarkerAfterValue(name, value) ==
  IF name = S_release_notes
  THEN name \o <<"<", "<">> \o S_EOF \o <<NL>> \o value \o S_EOF \o <<NL>>
  ELSE name \o <<"=">> \o value \o <<NL>>

\* setOutput: what is appended to the output file for a name and a value
OutputText(name, value) ==
  IF name = S_release_notes
  THEN name \o <<"<", "<">> \o S_EOF \o <<NL>> \o value \o <<NL>> \o S_EOF \o <<NL>>
  ELSE name \o <<"=">> \o value \o <<NL>>

(***************************************************************************)
(* State.                                                                  *)
(*   environ: the environment variables of the process;                    *)
(*   config: the result of loadConfig; env, remote: the output file's      *)
(*     environment and the hosting service, which the run only reads;      *)
(*   rnwConfig: rnw.config, the writer's own copy of the configuration;    *)
(*   pc, err: the position of run and the error it returned;               *)
(*   the rest: the fields of ReleaseNotesWriter and the locals of run,     *)
(*     changesForMain, getChangesForSubmodule and getSubmoduleCommits;     *)
(*   calls: the remote calls issued so far; outputFile: what setOutput     *)
(*     has appended to the file named by GITHUB_OUTPUT.                    *)
(***************************************************************************)
VARIABLES environ, config, env, remote, rnwConfig, pc, err, owner, repo, previousTag, tags, page,
          commit, prevCommit, changes, submodulePath, submoduleRepoName,
          smChanges, oldSMCommit, newSMCommit, finalNotes, calls, outputFile

vars == << environ, config, env, remote, rnwConfig, pc, err, owner, repo, previousTag, tags, page,
           commit, prevCommit, changes, submodulePath, submoduleRepoName,
           smChanges, oldSMCommit, newSMCommit, finalNotes, calls, outputFile >>

inputs == << environ, config, env, remote >>
tagVars == << previousTag, tags, page >>
mainVars == << commit, prevCommit, changes >>
subVars == << submodulePath, submoduleRepoName, smChanges, oldSMCommit, newSMCommit >>
outVars == << finalNotes, outputFile >>

(***************************************************************************)
(* The hosting service.                                                    *)
(***************************************************************************)
\* the n-th remote call of the run fails with a transport or API error
CallFails == remote.failAt = Len(calls) + 1

Call(op, ownr, rep, args) == [op |-> op, owner |-> ownr, repo |-> rep, args |-> args]

\* Repositories.ListReleases: the releases of the page and resp.LastPage, which
\* go-github leaves 0 on the last page
ReleasesOfPage(p) == IF p \in 1..Len(remote.pages) THEN remote.pages[p] ELSE <<>>
LastPageOf(p) == IF p < Len(remote.pages) THEN Len(remote.pages) ELSE 0

\* Git.GetRef "tags/"+tag: the tag exists or the call returns not found
RefExists(tag) == tag \in DOMAIN remote.refs

\* Repositories.CompareCommits: the commits reachable from head and not from base
Comparison(ownr, rep, base, head) ==
  IF base = head THEN <<>>
  ELSE IF <<ownr, rep>> = <<owner, repo>> THEN remote.hostCommits
  ELSE remote.smCommits

\* Git.GetTree, recursive
TreeOf(sha) == IF sha \in DOMAIN remote.trees THEN remote.trees[sha] ELSE <<>>

(***************************************************************************)
(* The operations of one run.  Every remote call is one step; the code     *)
(* between two remote calls belongs to the step of the call before it.     *)
(***************************************************************************)
Fail(e) == pc' = "failed" /\ err' = e

\* os.Getenv: the value of the variable, the empty string when it is not set
Getenv(key) ==
  IF key \in DOMAIN environ /\ environ[key].set THEN environ[key].value ELSE <<>>

\* mutant of getEnv: the variable is not looked at
getEnvAlwaysDefault(key, defaultValue) == defaultValue

\* getEnv, lines 43-48
getEnv(key, defaultValue) ==
  LET value == Getenv(key)
  IN IF value # <<>> THEN value ELSE defaultValue

\* loadConfig, lines 33-41
loadConfig ==
  [ Token |-> getEnv("INPUT_GITHUB_TOKEN", <<>>),
    Repository |-> getEnv("INPUT_REPOSITORY", <<>>),
    Tag |-> getEnv("INPUT_TAG", <<>>),
    PreviousTag |-> getEnv("INPUT_PREVIOUS_TAG", <<>>),
    GeneratedSubmoduleLink |-> getEnv("INPUT_GENERATED_SUBMODULE_LINK", <<>>) ]

\* main, line 25: the configuration is loaded from the environment
LoadConfig ==
  /\ pc = "loadConfig"
  /\ config' = loadConfig
  /\ pc' = "start"
  /\ UNCHANGED << environ, env, remote, rnwConfig, err, owner, repo, tagVars, mainVars,
                  subVars, outVars, calls >>

\* run, lines 66-73: the repository name is split before any remote call and
\* the writer is built with a copy of the configuration
RunStart ==
  /\ pc = "start"
  /\ LET parts == Split(config.Repository, "/")
     IN IF Len(parts) # 2
        THEN Fail("invalid repository format") /\ UNCHANGED << owner, repo, rnwConfig >>
        ELSE /\ owner' = parts[1]
             /\ rnwConfig' = config
             /\ repo' = parts[2]
             /\ pc' = "fetchPreviousTag"
             /\ err' = err
  /\ UNCHANGED << inputs, tagVars, mainVars, subVars, outVars, calls >>

\* mutant of FetchPreviousTagExplicit: an explicit prerelease tag is discarded
FetchPreviousTagExplicitNoPrerelease ==
  /\ pc = "fetchPreviousTag"
  /\ rnwConfig.PreviousTag # <<>>
  /\ previousTag' = IF ContainsChar(rnwConfig.PreviousTag, "-") THEN <<>>
                    ELSE rnwConfig.PreviousTag
  /\ pc' = "commitForTag"
  /\ UNCHANGED << rnwConfig, inputs, err, owner, repo, tags, page, mainVars, subVars,
                  outVars, calls >>

\* fetchPreviousTag, lines 179-182: an explicit previous tag is taken as it is
FetchPreviousTagExplicit ==
  /\ pc = "fetchPreviousTag"
  /\ rnwConfig.PreviousTag # <<>>
  /\ previousTag' = rnwConfig.PreviousTag
  /\ pc' = "commitForTag"
  /\ UNCHANGED << rnwConfig, inputs, err, owner, repo, tags, page, mainVars, subVars,
                  outVars, calls >>

\* mutant of ListReleases: the loop stops one page before the last
ListReleasesStopsEarly ==
  /\ pc = "fetchPreviousTag"
  /\ rnwConfig.PreviousTag = <<>>
  /\ calls' = Append(calls, Call("ListReleases", owner, repo, <<page>>))
  /\ IF CallFails
     THEN Fail("fetching previous tag") /\ UNCHANGED tagVars
     ELSE LET collected == CollectTags(tags, ReleasesOfPage(page))
          IN /\ tags' = collected
             /\ err' = err
             /\ IF page + 1 >= LastPageOf(page)
                THEN /\ previousTag' = SelectPreviousTag(collected, rnwConfig.Tag, previousTag)
                     /\ pc' = "commitForTag"
                     /\ page' = page
                ELSE /\ page' = page + 1
                     /\ pc' = pc
                     /\ previousTag' = previousTag
  /\ UNCHANGED << rnwConfig, inputs, owner, repo, mainVars, subVars, outVars >>

\* fetchPreviousTag, lines 183-222: one iteration of the page loop and, on the
\* last page, the sort and the selection of the previous tag
ListReleases ==
  /\ pc = "fetchPreviousTag"
  /\ rnwConfig.PreviousTag = <<>>
  /\ calls' = Append(calls, Call("ListReleases", owner, repo, <<page>>))
  /\ IF CallFails
     THEN Fail("fetching previous tag") /\ UNCHANGED tagVars
     ELSE LET collected == CollectTags(tags, ReleasesOfPage(page))
          IN /\ tags' = collected
             /\ err' = err
             /\ IF page >= LastPageOf(page)
                THEN /\ previousTag' = SelectPreviousTag(collected, rnwConfig.Tag, previousTag)
                     /\ pc' = "commitForTag"
                     /\ page' = page
                ELSE /\ page' = page + 1
                     /\ pc' = pc
                     /\ previousTag' = previousTag
  /\ UNCHANGED << rnwConfig, inputs, owner, repo, mainVars, subVars, outVars >>

S_tags == <<"t", "a", "g", "s", "/">>

\* changesForMain, lines 157-162, and commitForTag: the commit of rnw.config.Tag
CommitForTag ==
  /\ pc = "commitForTag"
  /\ calls' = Append(calls, Call("GetRef", owner, repo, <<S_tags \o rnwConfig.Tag>>))
  /\ IF CallFails \/ ~RefExists(rnwConfig.Tag)
     THEN Fail("failed to get commit for tag") /\ commit' = <<>>
     ELSE /\ commit' = remote.refs[rnwConfig.Tag]
          /\ pc' = "commitForPreviousTag"
          /\ err' = err
  /\ UNCHANGED << rnwConfig, inputs, owner, repo, tagVars, prevCommit, changes, subVars,
                  outVars >>

\* changesForMain, lines 163-167, and commitForTag: the commit of rnw.previousTag
CommitForPreviousTag ==
  /\ pc = "commitForPreviousTag"
  /\ calls' = Append(calls, Call("GetRef", owner, repo, <<S_tags \o previousTag>>))
  /\ IF CallFails \/ ~RefExists(previousTag)
     THEN Fail("failed to get commit for previous tag") /\ prevCommit' = <<>>
     ELSE /\ prevCommit' = remote.refs[previousTag]
          /\ pc' = "getChanges"
          /\ err' = err
  /\ UNCHANGED << rnwConfig, inputs, owner, repo, tagVars, commit, changes, subVars,
                  outVars >>

\* mutant of HostChanges: a failed comparison is taken for an empty one
HostChangesSwallowsError ==
  /\ pc = "getChanges"
  /\ calls' = Append(calls, Call("CompareCommits", owner, repo, <<prevCommit, commit>>))
  /\ changes' = IF CallFails THEN <<>>
                ELSE ChangeEntries(Comparison(owner, repo, prevCommit, commit))
  /\ pc' = "getSubmodulePathRepo"
  /\ UNCHANGED << rnwConfig, inputs, err, owner, repo, tagVars, commit, prevCommit,
                  subVars, outVars >>

\* changesForMain, lines 168-173, and getChanges: the host change list.  The
\* wrapped error of line 170 is discarded, the error of getChanges is returned.
HostChanges ==
  /\ pc = "getChanges"
  /\ calls' = Append(calls, Call("CompareCommits", owner, repo, <<prevCommit, commit>>))
  /\ IF CallFails
     THEN Fail("failed to compare commits") /\ changes' = <<>>
     ELSE /\ changes' = ChangeEntries(Comparison(owner, repo, prevCommit, commit))
          /\ pc' = "getSubmodulePathRepo"
          /\ err' = err
  /\ UNCHANGED << rnwConfig, inputs, owner, repo, tagVars, commit, prevCommit, subVars,
                  outVars >>

S_gitmodules == <<".", "g", "i", "t", "m", "o", "d", "u", "l", "e", "s">>

\* getChangesForSubmodule, lines 113-129, and getSubmodulePathRepo: .gitmodules
\* is read at the current commit and parsed; a read or decode error is returned
GetSubmodulePathRepo ==
  /\ pc = "getSubmodulePathRepo"
  /\ calls' = Append(calls, Call("GetContents", owner, repo, <<S_gitmodules, commit>>))
  /\ IF CallFails \/ remote.manifest.status # "ok"
     THEN /\ Fail("failed to get submodule path and repository")
          /\ UNCHANGED << rnwConfig, submodulePath, submoduleRepoName >>
     ELSE LET decl == ParseManifest(remote.manifest.content)
          IN /\ submodulePath' = decl.path
             /\ submoduleRepoName' = decl.repo
             /\ err' = err
             /\ IF decl.path = <<>> \/ decl.repo = <<>>
                THEN pc' = "replaceSubmoduleLinks" /\ rnwConfig' = rnwConfig
                ELSE /\ pc' = "getOldTree"
                     /\ rnwConfig' = IF rnwConfig.GeneratedSubmoduleLink = <<>>
                                     THEN [rnwConfig EXCEPT
                                             !.GeneratedSubmoduleLink = decl.repo]
                                     ELSE rnwConfig
  /\ UNCHANGED << inputs, owner, repo, tagVars, mainVars, smChanges, oldSMCommit,
                  newSMCommit, outVars >>

\* mutant of GetOldTree: the tree of the current host commit is listed first
GetOldTreeAtCurrentCommit ==
  /\ pc = "getOldTree"
  /\ calls' = Append(calls, Call("GetTree", owner, repo, <<commit>>))
  /\ IF CallFails
     THEN Fail("failed to get submodule commits") /\ oldSMCommit' = oldSMCommit
     ELSE /\ oldSMCommit' = FindSubmoduleCommit(TreeOf(commit), submodulePath)
          /\ pc' = "getNewTree"
          /\ err' = err
  /\ UNCHANGED << rnwConfig, inputs, owner, repo, tagVars, mainVars, submodulePath,
                  submoduleRepoName, smChanges, newSMCommit, outVars >>

\* getSubmoduleCommits, lines 262-274: the tree of the previous host commit
GetOldTree ==
  /\ pc = "getOldTree"
  /\ calls' = Append(calls, Call("GetTree", owner, repo, <<prevCommit>>))
  /\ IF CallFails
     THEN Fail("failed to get submodule commits") /\ oldSMCommit' = oldSMCommit
     ELSE /\ oldSMCommit' = FindSubmoduleCommit(TreeOf(prevCommit), submodulePath)
          /\ pc' = "getNewTree"
          /\ err' = err
  /\ UNCHANGED << rnwConfig, inputs, owner, repo, tagVars, mainVars, submodulePath,
                  submoduleRepoName, smChanges, newSMCommit, outVars >>

\* getSubmoduleCommits, lines 276-294, and getChangesForSubmodule, lines 133-142:
\* the tree of the current host commit, the check that both lookups found a
\* commit, and the split of the submodule repository name
GetNewTree ==
  /\ pc = "getNewTree"
  /\ calls' = Append(calls, Call("GetTree", owner, repo, <<commit>>))
  /\ IF CallFails
     THEN /\ Fail("failed to get submodule commits")
          /\ UNCHANGED << oldSMCommit, newSMCommit, submoduleRepoName >>
     ELSE LET new == FindSubmoduleCommit(TreeOf(commit), submodulePath)
          IN IF oldSMCommit = <<>> \/ new = <<>>
             THEN /\ Fail("failed to get submodule commits")
                  /\ oldSMCommit' = <<>>
                  /\ newSMCommit' = <<>>
                  /\ submoduleRepoName' = <<>>
             ELSE IF Len(Split(submoduleRepoName, "/")) # 2
             THEN /\ Fail("invalid submodule repository format")
                  /\ oldSMCommit' = oldSMCommit
                  /\ newSMCommit' = new
                  /\ submoduleRepoName' = <<>>
             ELSE /\ newSMCommit' = new
                  /\ pc' = "getSubmoduleChanges"
                  /\ err' = err
                  /\ UNCHANGED << oldSMCommit, submoduleRepoName >>
  /\ UNCHANGED << rnwConfig, inputs, owner, repo, tagVars, mainVars, submodulePath,
                  smChanges, outVars >>

\* mutant of SubmoduleChanges: base and head of the comparison are swapped
SubmoduleChangesSwapped ==
  /\ pc = "getSubmoduleChanges"
  /\ LET parts == Split(submoduleRepoName, "/")
     IN /\ calls' = Append(calls, Call("CompareCommits", parts[1], parts[2],
                                       <<newSMCommit, oldSMCommit>>))
        /\ IF CallFails
           THEN /\ Fail("failed to get submodule changes")
                /\ smChanges' = <<>>
                /\ submoduleRepoName' = <<>>
           ELSE /\ smChanges' = ChangeEntries(Comparison(parts[1], parts[2],
                                                         newSMCommit, oldSMCommit))
                /\ pc' = "replaceSubmoduleLinks"
                /\ err' = err
                /\ submoduleRepoName' = submoduleRepoName
  /\ UNCHANGED << rnwConfig, inputs, owner, repo, tagVars, mainVars, submodulePath,
                  oldSMCommit, newSMCommit, outVars >>

\* getChangesForSubmodule, lines 142-148, and getChanges: the submodule change list
SubmoduleChanges ==
  /\ pc = "getSubmoduleChanges"
  /\ LET parts == Split(submoduleRepoName, "/")
     IN /\ calls' = Append(calls, Call("CompareCommits", parts[1], parts[2],
                                       <<oldSMCommit, newSMCommit>>))
        /\ IF CallFails
           THEN /\ Fail("failed to get submodule changes")
                /\ smChanges' = <<>>
                /\ submoduleRepoName' = <<>>
           ELSE /\ smChanges' = ChangeEntries(Comparison(parts[1], parts[2],
                                                         oldSMCommit, newSMCommit))
                /\ pc' = "replaceSubmoduleLinks"
                /\ err' = err
                /\ submoduleRepoName' = submoduleRepoName
  /\ UNCHANGED << rnwConfig, inputs, owner, repo, tagVars, mainVars, submodulePath,
                  oldSMCommit, newSMCommit, outVars >>

\* run, line 94: the references of the submodule entries are rewritten in place
ReplaceLinks ==
  /\ pc = "replaceSubmoduleLinks"
  /\ smChanges' = ReplaceSubmoduleLinks(smChanges, rnwConfig.GeneratedSubmoduleLink)
  /\ pc' = "setOutput"
  /\ UNCHANGED << rnwConfig, inputs, err, owner, repo, tagVars, mainVars, submodulePath,
                  submoduleRepoName, oldSMCommit, newSMCommit, outVars, calls >>

\* run, lines 96-105, and setOutput: the report is assembled and appended to the
\* file named by GITHUB_OUTPUT, when that is set and the file can be opened
Emit ==
  /\ pc = "setOutput"
  /\ LET notes == FinalNotes(owner, repo, changes, submoduleRepoName, smChanges)
     IN /\ finalNotes' = notes
        /\ outputFile' = IF env.GITHUB_OUTPUT /\ env.openOk
                         THEN Append(outputFile, OutputText(S_release_notes, notes))
                         ELSE outputFile
  /\ pc' = "done"
  /\ UNCHANGED << rnwConfig, inputs, err, owner, repo, tagVars, mainVars, subVars, calls >>

Next ==
  \/ LoadConfig
  \/ RunStart
  \/ FetchPreviousTagExplicit
  \/ ListReleases
  \/ CommitForTag
  \/ CommitForPreviousTag
  \/ HostChanges
  \/ GetSubmodulePathRepo
  \/ GetOldTree
  \/ GetNewTree
  \/ SubmoduleChanges
  \/ ReplaceLinks
  \/ Emit

(***************************************************************************)
(* Inputs.  A run starts from a configuration, an environment and a state  *)
(* of the hosting service.  Init varies one part of the input at a time    *)
(* around a default in which a release v1.1.0 follows v1.0.0 and one       *)
(* submodule is declared.                                                  *)
(***************************************************************************)
SeqsUpTo(S, n) == UNION {[1..k -> S] : k \in 0..n}

T_v1 == <<"v", "1">>
T_v100 == <<"v", "1", ".", "0", ".", "0">>
T_v110 == <<"v", "1", ".", "1", ".", "0">>
T_v110rc1 == <<"v", "1", ".", "1", ".", "0", "-", "r", "c", "1">>
T_v200 == <<"v", "2", ".", "0", ".", "0">>
T_v1000 == <<"v", "1", "0", ".", "0", ".", "0">>
T_v090 == <<"v", "0", ".", "9", ".", "0">>

\* commit identifiers: nine characters, the first eight shared
Sha(c) == <<"a", "a", "a", "a", "a", "a", "a", "a", c>>

Release(name) == [hasTagName |-> TRUE, TagName |-> name]
NoTagRelease == [hasTagName |-> FALSE, TagName |-> <<>>]

ListedTags == {T_v1, T_v100, T_v110, T_v110rc1, T_v200, T_v1000}
TargetTags == {<<>>, T_v100, T_v110, T_v110rc1, T_v090}

\* the host's pages of releases for a list of releases
RECURSIVE Paginate(_)
Paginate(list) ==
  IF Len(list) <= PageSize THEN (IF list = <<>> THEN <<>> ELSE <<list>>)
  ELSE <<Take(list, PageSize)>> \o Paginate(Drop(list, PageSize))

DefaultRefs ==
  [t \in ListedTags \cup {T_v090} |->
     CASE t = T_v100 -> Sha("1")
       [] t = T_v110 -> Sha("2")
       [] t = T_v200 -> Sha("3")
       [] t = T_v1000 -> Sha("4")
       [] t = T_v110rc1 -> Sha("5")
       [] t = T_v1 -> Sha("6")
       [] OTHER -> Sha("7")]

HostShas == {DefaultRefs[t] : t \in DOMAIN DefaultRefs}

Entry(path, type, sha) == [Path |-> path, Type |-> type, SHA |-> sha]

TreeEntries ==
  { Entry(<<"e">>, "commit", Sha("8")), Entry(<<"e">>, "commit", Sha("9")),
    Entry(<<"e">>, "blob", Sha("8")), Entry(<<"e">>, "tree", Sha("9")),
    Entry(<<"f">>, "commit", Sha("8")) }

\* the tree of the commit of v1.0.0 is old, the tree of every other commit is new
Trees(old, new) == [sha \in HostShas |-> IF sha = Sha("1") THEN old ELSE new]

Commit(msg) == [hasMessage |-> TRUE, Message |-> msg]
NoMessageCommit == [hasMessage |-> FALSE, Message |-> <<>>]

M_fix5 == <<"f", "i", "x", " ", "#", "5">>
M_two == <<"a", " ", "#", "1", " ", "#", "2", ".", NL, NL, "b", " ", "#", "3">>
M_adjacent == <<"#", "1", "#", "2">>
M_word == <<"#", "1", "2", "a", " ", "#", " ", "x", "#", "7", "_">>
M_plain == <<"a", "b">>
M_eof == <<"E", "O", "F", NL, "E", "O", "F">>

Commits ==
  { Commit(M_fix5), Commit(M_two), Commit(M_adjacent), Commit(M_word),
    Commit(M_plain), Commit(M_eof), Commit(<<>>), NoMessageCommit }

L_path_e == <<"p", "a", "t", "h", " ", "=", " ", "e">>
L_path_f == <<"\t", "p", "a", "t", "h", " ", "=", " ", "f", " ">>
L_url_https ==
  <<"u", "r", "l", " ", "=", " ", "h", "t", "t", "p", "s", ":", "/", "/", "h", "/",
    "o", "/", "e", ".", "g", "i", "t">>
L_url_http ==
  <<"u", "r", "l", " ", "=", " ", "h", "t", "t", "p", ":", "/", "/", "h", "/",
    "o", "/", "f">>
L_url_ssh ==
  <<"u", "r", "l", " ", "=", " ", "g", "i", "t", "@", "h", ":", "o", "/", "e",
    ".", "g", "i", "t">>
L_url_ssh2 ==
  <<"u", "r", "l", " ", "=", " ", "g", "i", "t", "@", "h", ":", "o", "/", "e", ":", "x">>
L_url_ssh1 == <<"u", "r", "l", " ", "=", " ", "g", "i", "t", "@", "h", ":", "e">>
L_url_rel == <<"u", "r", "l", " ", "=", " ", ".", ".", "/", "e", ".", "g", "i", "t">>
L_url_httpx == <<"u", "r", "l", " ", "=", " ", "h", "t", "t", "p", "x", "/", "e">>
L_url_bare == <<"u", "r", "l", " ", "=", " ", "h", "t", "t", "p">>
L_section == <<"[", "s", "u", "b", "m", "o", "d", "u", "l", "e", "]">>

ManifestLines ==
  { L_path_e, L_path_f, L_url_https, L_url_http, L_url_ssh, L_url_ssh2, L_url_ssh1,
    L_url_rel, L_url_httpx, L_url_bare, L_section }

Manifest(status, content) == [status |-> status, content |-> content]

DefaultConfig ==
  [ Token |-> <<"t">>, Repository |-> <<"o", "/", "r">>, Tag |-> T_v110,
    PreviousTag |-> <<>>, GeneratedSubmoduleLink |-> <<>> ]

\* the zero value of Config
ZeroConfig ==
  [ Token |-> <<>>, Repository |-> <<>>, Tag |-> <<>>, PreviousTag |-> <<>>,
    GeneratedSubmoduleLink |-> <<>> ]

Unset == [set |-> FALSE, value |-> <<>>]
SetTo(value) == [set |-> TRUE, value |-> value]

\* the environment in which the inputs of cfg are given: an empty input is a
\* variable that is not set
EnvironOf(cfg) ==
  LET var(value) == IF value = <<>> THEN Unset ELSE SetTo(value)
  IN [ INPUT_GITHUB_TOKEN |-> var(cfg.Token),
       INPUT_REPOSITORY |-> var(cfg.Repository),
       INPUT_TAG |-> var(cfg.Tag),
       INPUT_PREVIOUS_TAG |-> var(cfg.PreviousTag),
       INPUT_GENERATED_SUBMODULE_LINK |-> var(cfg.GeneratedSubmoduleLink) ]

DefaultEnv == [GITHUB_OUTPUT |-> TRUE, openOk |-> TRUE]

DefaultRemote ==
  [ pages |-> Paginate(<<Release(T_v110), Release(T_v100)>>),
    refs |-> DefaultRefs,
    hostCommits |-> <<Commit(M_plain), Commit(M_fix5)>>,
    smCommits |-> <<Commit(M_fix5)>>,
    manifest |-> Manifest("ok", Join(<<L_section, L_path_e, L_url_https>>, NL)),
    trees |-> Trees(<<Entry(<<"e">>, "commit", Sha("8"))>>,
                    <<Entry(<<"e">>, "commit", Sha("9"))>>),
    failAt |-> 0 ]

\* the state of the process when main starts
StartIn(vs, e, rem) ==
  /\ environ = vs
  /\ config = ZeroConfig
  /\ env = e
  /\ remote = rem
  /\ rnwConfig = ZeroConfig
  /\ pc = "loadConfig"
  /\ err = ""
  /\ owner = <<>>
  /\ repo = <<>>
  /\ previousTag = <<>>
  /\ tags = <<>>
  /\ page = 1
  /\ commit = <<>>
  /\ prevCommit = <<>>
  /\ changes = <<>>
  /\ submodulePath = <<>>
  /\ submoduleRepoName = <<>>
  /\ smChanges = <<>>
  /\ oldSMCommit = <<>>
  /\ newSMCommit = <<>>
  /\ finalNotes = <<>>
  /\ calls = <<>>
  /\ outputFile = <<>>

Start(cfg, e, rem) == StartIn(EnvironOf(cfg), e, rem)

\* the release list and the target tag vary
InitReleases ==
  \E list \in SeqsUpTo({Release(t) : t \in ListedTags}, MaxTags), target \in TargetTags :
    Start([DefaultConfig EXCEPT !.Tag = target], DefaultEnv,
          [DefaultRemote EXCEPT !.pages = Paginate(list)])

\* releases without a tag name or with an empty one
InitOddReleases ==
  \E list \in SeqsUpTo({NoTagRelease, Release(<<>>), Release(T_v100), Release(T_v110rc1)},
                       MaxTags) :
    Start(DefaultConfig, DefaultEnv, [DefaultRemote EXCEPT !.pages = Paginate(list)])

\* the configuration and the environment vary
InitConfig ==
  \E repository \in {<<"o", "/", "r">>, <<"o", "r">>, <<"o", "/", "r", "/", "x">>, <<>>},
     target \in {T_v110, <<>>},
     previous \in {<<>>, T_v100, T_v110rc1, T_v200, <<"x">>},
     link \in {<<>>, <<"L">>},
     out \in BOOLEAN, open \in BOOLEAN :
    Start([Token |-> <<"t">>, Repository |-> repository, Tag |-> target,
           PreviousTag |-> previous, GeneratedSubmoduleLink |-> link],
          [GITHUB_OUTPUT |-> out, openOk |-> open], DefaultRemote)

\* the commits returned by the two comparisons vary
InitCommits ==
  \E list \in SeqsUpTo(Commits, MaxCommits), sub \in BOOLEAN, link \in {<<>>, <<"L">>} :
    Start([DefaultConfig EXCEPT !.GeneratedSubmoduleLink = link], DefaultEnv,
          IF sub THEN [DefaultRemote EXCEPT !.smCommits = list]
          ELSE [DefaultRemote EXCEPT !.hostCommits = list])

\* the manifest varies: missing, undecodable, or up to MaxLines lines
InitManifest ==
  \/ \E status \in {"notfound", "undecodable"} :
       Start(DefaultConfig, DefaultEnv,
             [DefaultRemote EXCEPT !.manifest = Manifest(status, <<>>)])
  \/ \E lines \in SeqsUpTo(ManifestLines, MaxLines) :
       Start(DefaultConfig, DefaultEnv,
             [DefaultRemote EXCEPT !.manifest = Manifest("ok", Join(lines, NL))])

\* the orders in which the lines of two declarations can follow one another
Arrangements(p1, u1, p2, u2) ==
  { <<L_section, p1, u1, L_section, p2, u2>>,
    <<L_section, u1, p1, L_section, p2, u2>>,
    <<L_section, p1, u1, L_section, u2, p2>>,
    <<p1, p2, u1, u2>>,
    <<u1, u2, p2, p1>> }

\* the manifest declares two submodules
InitDeclarations ==
  \E p1, p2 \in {L_path_e, L_path_f},
     u1, u2 \in {L_url_https, L_url_http, L_url_ssh1, L_url_rel} :
    \E lines \in Arrangements(p1, u1, p2, u2) :
      Start(DefaultConfig, DefaultEnv,
            [DefaultRemote EXCEPT !.manifest = Manifest("ok", Join(lines, NL))])

\* every input variable is unset, set to the empty string, or set to a value
InitEnviron ==
  \E given \in [DOMAIN EnvironOf(DefaultConfig) -> {"unset", "empty", "value"}] :
    LET values == EnvironOf([DefaultConfig EXCEPT !.PreviousTag = T_v100,
                                                  !.GeneratedSubmoduleLink = <<"L">>])
    IN StartIn([k \in DOMAIN given |->
                  CASE given[k] = "unset" -> Unset
                    [] given[k] = "empty" -> SetTo(<<>>)
                    [] OTHER -> values[k]],
               DefaultEnv, DefaultRemote)

\* the releases of one page
PageContents ==
  { <<Release(T_v100)>>, <<Release(T_v110rc1)>>, <<Release(T_v200), Release(T_v090)>> }

\* the number of pages of the listing varies, and one of the requests may fail
InitPages ==
  \E pages \in SeqsUpTo(PageContents, MaxPages), n \in 0..MaxPages,
     previous \in {<<>>, T_v100} :
    Start([DefaultConfig EXCEPT !.PreviousTag = previous], DefaultEnv,
          [DefaultRemote EXCEPT !.pages = pages, !.failAt = n])

\* the two trees vary, one at a time
InitTrees ==
  \E tree \in SeqsUpTo(TreeEntries, MaxTree),
     other \in {<<>>, <<Entry(<<"e">>, "commit", Sha("9"))>>},
     old \in BOOLEAN :
    Start(DefaultConfig, DefaultEnv,
          [DefaultRemote EXCEPT !.trees = IF old THEN Trees(tree, other)
                                          ELSE Trees(other, tree)])

\* one remote call of the default run fails
InitFailures ==
  \E n \in 1..MaxFailAt, previous \in {<<>>, T_v100}, declared \in BOOLEAN :
    Start([DefaultConfig EXCEPT !.PreviousTag = previous], DefaultEnv,
          [DefaultRemote EXCEPT !.failAt = n,
             !.manifest = IF declared THEN @ ELSE Manifest("ok", <<>>)])

Init ==
  \/ InitReleases
  \/ InitOddReleases
  \/ InitPages
  \/ InitConfig
  \/ InitEnviron
  \/ InitCommits
  \/ InitManifest
  \/ InitDeclarations
  \/ InitTrees
  \/ InitFailures

Spec == Init /\ [][Next]_vars

\* A step of the page loop as far as its request and the position of the run
\* go: every ListReleases step is such a step, and a step of Next that is such a
\* step is a ListReleases step, so that fairness of the one is fairness of the
\* other; whether it is enabled does not depend on the sort of the tags.
ListingStep ==
  /\ pc = "fetchPreviousTag"
  /\ rnwConfig.PreviousTag = <<>>
  /\ calls' = Append(calls, Call("ListReleases", owner, repo, <<page>>))
  /\ pc' \in {"fetchPreviousTag", "commitForTag", "failed"}
  /\ err' \in {err, "fetching previous tag"}
  /\ page' \in {page, page + 1}
  /\ LET collected == CollectTags(tags, ReleasesOfPage(page))
     IN /\ tags' \in {tags, collected}
        /\ previousTag' \in {previousTag} \cup {collected[i] : i \in DOMAIN collected}
  /\ UNCHANGED << rnwConfig, inputs, owner, repo, mainVars, subVars, outVars >>

\* The runs over listings of several pages.  fetchPreviousTag is sequential code
\* whose requests are synchronous and return, so a request that can be issued
\* is issued.
ListingSpec ==
  InitPages /\ [][Next]_vars /\ WF_vars(ListingStep) /\ WF_vars(FetchPreviousTagExplicit)

(***************************************************************************)
(* Properties.                                                             *)
(***************************************************************************)
Range(f) == {f[i] : i \in DOMAIN f}

RECURSIVE Flatten(_)
Flatten(seqs) == IF seqs = <<>> THEN <<>> ELSE seqs[1] \o Flatten(Tail(seqs))

\* all releases of the host, over all pages
AllReleases == Flatten(remote.pages)

\* the hyphen-free release tag names, as a set
HyphenFreeNames ==
  { r.TagName : r \in { x \in Range(AllReleases) :
                          x.hasTagName /\ x.TagName # <<>> /\ ~ContainsChar(x.TagName, "-") } }

IsListing(call) == call.op = "ListReleases"

\* fetchPreviousTag has returned without error
TagResolved ==
  /\ pc \notin {"loadConfig", "start", "fetchPreviousTag"}
  /\ ~(pc = "failed" /\ err \in {"invalid repository format", "fetching previous tag"})

\* fetchPreviousTag has just returned from the release listing without error
AutoDetected == pc = "commitForTag" /\ config.PreviousTag = <<>>

\* the greatest element of a non-empty set of tag names, in the order of semver.Sort
Greatest(S) == CHOOSE x \in S : \A y \in S : ~VersionLess(x, y)

Below(S, target) == {t \in S : Compare(t, target) < 0}

ExpectedPrevious(S, target) ==
  IF target = <<>> \/ Below(S, target) = {} THEN Greatest(S)
  ELSE Greatest(Below(S, target))

\* C1: with valid semantic versions as tag names and at least one hyphen-free
\* release tag, the auto-detected previous tag is the greatest hyphen-free tag
\* when the target is empty or no tag is below it, and otherwise the greatest
\* hyphen-free tag strictly below the target: a function of the set of names
\* and the target alone, whatever the order and the paging of the listing.
C1_PreviousTagOfSet ==
  ( /\ AutoDetected
    /\ HyphenFreeNames # {}
    /\ \A t \in HyphenFreeNames \cup ({config.Tag} \ {<<>>}) : Parse(t).ok )
  => previousTag = ExpectedPrevious(HyphenFreeNames, config.Tag)

\* C1 witness: three tags listed on two pages in descending order, a target with
\* tags below and not below it, and the tag chosen is not the greatest
C1_Witness ==
  /\ AutoDetected
  /\ Len(remote.pages) >= 2
  /\ Cardinality(HyphenFreeNames) >= 3
  /\ AllReleases[1].TagName = Greatest(HyphenFreeNames)
  /\ config.Tag # <<>>
  /\ Below(HyphenFreeNames, config.Tag) # {}
  /\ previousTag # Greatest(HyphenFreeNames)
  /\ previousTag = Greatest(Below(HyphenFreeNames, config.Tag))

HasHyphen(release) == ContainsChar(release.TagName, "-")
NoHyphen(release) == ~HasHyphen(release)

\* C5: the auto-detected previous tag contains no hyphen, and it is the tag
\* that is detected for the same release list with the hyphenated names removed.
C5_HyphenatedExcluded ==
  AutoDetected =>
    /\ ~ContainsChar(previousTag, "-")
    /\ previousTag = SelectPreviousTag(CollectTags(<<>>, SelectSeq(AllReleases, NoHyphen)),
                                       config.Tag, <<>>)

\* C5 witness: a hyphenated release lies between the detected tag and the target
C5_Witness ==
  /\ AutoDetected
  /\ previousTag # <<>>
  /\ \E r \in Range(AllReleases) :
       /\ HasHyphen(r)
       /\ Compare(r.TagName, config.Tag) < 0
       /\ Compare(previousTag, r.TagName) < 0

\* C6: a non-empty configured previous tag becomes the previous tag as it is,
\* and the releases are never listed.
C6_ExplicitPreviousTag ==
  config.PreviousTag # <<>> =>
    /\ \A k \in 1..Len(calls) : ~IsListing(calls[k])
    /\ TagResolved => previousTag = config.PreviousTag

\* C6 witness: a run completed with an explicit previous tag that is a prerelease
\* and another with one that is greater than the target
C6_Witness ==
  /\ pc = "done"
  /\ config.PreviousTag \in {T_v110rc1, T_v200}
  /\ previousTag = config.PreviousTag
  /\ Compare(config.Tag, previousTag) <= 0 \/ ContainsChar(previousTag, "-")

CallsOf(op) == {k \in 1..Len(calls) : calls[k].op = op}

Min(S) == CHOOSE x \in S : \A y \in S : x <= y
Max(S) == CHOOSE x \in S : \A y \in S : x >= y

\* the .gitmodules read has been answered by the host (no transport failure)
ManifestAnswered == \E k \in CallsOf("GetContents") : remote.failAt # k

\* C2: when .gitmodules does not exist at the current commit, the parser returns
\* an empty path and an empty repository without an error, the run goes on, and
\* neither a tree listing nor a submodule comparison is issued.
C2_MissingManifestIsNoSubmodule ==
  (ManifestAnswered /\ remote.manifest.status = "notfound") =>
    /\ pc # "failed"
    /\ err = ""
    /\ submodulePath = <<>>
    /\ submoduleRepoName = <<>>
    /\ CallsOf("GetTree") = {}
    /\ Cardinality(CallsOf("CompareCommits")) <= 1

\* the k-th call failed: a transport failure, or a tag reference that does not exist
RemoteCallFailed(k) ==
  \/ remote.failAt = k
  \/ calls[k].op = "GetRef" /\ ~RefExists(Drop(calls[k].args[1], Len(S_tags)))

\* ... or a manifest that cannot be read or decoded
StageFailed(k) ==
  \/ RemoteCallFailed(k)
  \/ calls[k].op = "GetContents" /\ remote.manifest.status # "ok"

\* C3: a failed remote call is the last call of the run, which ends in an error
\* (no further call, no retry); a failed run writes no output; the output is
\* written at most once, only by a run in which every stage succeeded, and then
\* it is the framed report, written whenever the output file can be written.
C3_FailureIsTerminal ==
  /\ \A k \in 1..Len(calls) :
       RemoteCallFailed(k) => k = Len(calls) /\ pc = "failed" /\ err # ""
  /\ pc = "failed" => err # "" /\ outputFile = <<>> /\ finalNotes = <<>>
  /\ Len(outputFile) <= 1
  /\ outputFile # <<>> =>
       /\ pc = "done"
       /\ err = ""
       /\ \A k \in 1..Len(calls) : ~StageFailed(k)
       /\ outputFile[1] = OutputText(S_release_notes, finalNotes)
  /\ (pc = "done" /\ env.GITHUB_OUTPUT /\ env.openOk) => Len(outputFile) = 1

\* C3 witness: the submodule comparison, the eighth and last remote call, fails
C3_Witness ==
  /\ pc = "failed"
  /\ Cardinality(CallsOf("CompareCommits")) = 2
  /\ remote.failAt = Len(calls)
  /\ calls[Len(calls)].op = "CompareCommits"
  /\ changes # <<>>
  /\ outputFile = <<>>

\* The '#' of a reference: '#', one or more digits, then the end of the string
\* or a non-word character.
RefStarts(s) ==
  { i \in 1..Len(s) :
      /\ s[i] = "#"
      /\ \E d \in 1..(Len(s) - i) :
           /\ \A j \in (i + 1)..(i + d) : s[j] \in Digits
           /\ i + d = Len(s) \/ ~IsWordChar(s[i + d + 1]) }

\* s with label inserted before every reference, from position i on
RECURSIVE PrefixFrom(_, _, _)
PrefixFrom(s, label, i) ==
  IF i > Len(s) THEN <<>>
  ELSE (IF i \in RefStarts(s) THEN label ELSE <<>>) \o <<s[i]>> \o PrefixFrom(s, label, i + 1)

\* the label: the configured one if there is one, else the discovered repository
Label ==
  IF config.GeneratedSubmoduleLink # <<>> THEN config.GeneratedSubmoduleLink
  ELSE submoduleRepoName

\* the comparison of the submodule commits, as the host answers it
SubmoduleComparison ==
  LET parts == Split(submoduleRepoName, "/")
  IN Comparison(parts[1], parts[2], oldSMCommit, newSMCommit)

\* the submodule change list as getChanges returned it, before the rewriting
RawSubmoduleEntries ==
  IF Cardinality(CallsOf("CompareCommits")) = 2 /\ pc # "failed"
  THEN ChangeEntries(SubmoduleComparison)
  ELSE <<>>

\* C4: after the rewriting every entry is the original entry with the label
\* inserted before every reference, also before references that directly follow
\* one another; nothing else is changed.
C4_EveryReferencePrefixed ==
  pc \in {"setOutput", "done"} =>
    smChanges = [i \in 1..Len(RawSubmoduleEntries) |->
                   PrefixFrom(RawSubmoduleEntries[i], Label, 1)]

\* both trees have been listed
TreesListed ==
  Cardinality(CallsOf("GetTree")) = 2 /\ \A k \in CallsOf("GetTree") : remote.failAt # k

\* the positions of the entries of a tree with the path and the type "commit"
GitlinkPositions(entries, path) ==
  {i \in 1..Len(entries) : entries[i].Path = path /\ entries[i].Type = "commit"}

\* C7: once both trees are listed (the previous commit's first), the two
\* identifiers are those of the first entry of each tree with the submodule path
\* and the type "commit"; when one of the trees has no such entry the result
\* is an error and no identifier.
C7_SubmoduleCommits ==
  TreesListed =>
    LET old == TreeOf(prevCommit)
        new == TreeOf(commit)
        inOld == GitlinkPositions(old, submodulePath)
        inNew == GitlinkPositions(new, submodulePath)
    IN /\ calls[Min(CallsOf("GetTree"))].args = <<prevCommit>>
       /\ calls[Max(CallsOf("GetTree"))].args = <<commit>>
       /\ IF inOld # {} /\ inNew # {}
          THEN /\ oldSMCommit = old[Min(inOld)].SHA
               /\ newSMCommit = new[Min(inNew)].SHA
               /\ err # "failed to get submodule commits"
          ELSE /\ pc = "failed"
               /\ err = "failed to get submodule commits"
               /\ oldSMCommit = <<>>
               /\ newSMCommit = <<>>

\* C7 witness: the old tree has a blob or tree entry with the submodule path
\* before the gitlink, and the gitlink's identifier is the one returned
C7_Witness ==
  /\ TreesListed
  /\ pc = "done"
  /\ LET old == TreeOf(prevCommit)
     IN /\ Len(old) >= 2
        /\ old[1].Path = submodulePath
        /\ old[1].Type # "commit"
        /\ old[1].SHA # old[2].SHA
        /\ oldSMCommit = old[2].SHA

\* getSubmodulePathRepo has just returned the parsed declaration
ManifestParsed ==
  /\ calls # <<>>
  /\ calls[Len(calls)].op = "GetContents"
  /\ pc \in {"getOldTree", "replaceSubmoduleLinks"}

ManifestTrimmedLines ==
  LET lines == Split(remote.manifest.content, NL)
  IN [i \in 1..Len(lines) |-> TrimSpace(lines[i])]

PathLines == {i \in DOMAIN ManifestTrimmedLines : HasPrefix(ManifestTrimmedLines[i], S_path)}
UrlLines == {i \in DOMAIN ManifestTrimmedLines : HasPrefix(ManifestTrimmedLines[i], S_url)}

Positions(s, c) == {i \in 1..Len(s) : s[i] = c}

\* the last two '/'-delimited segments of u, which has at least one '/'
LastTwoSegments(u) ==
  LET slashes == Positions(u, "/")
      before == slashes \ {Max(slashes)}
  IN IF before = {} THEN u ELSE Drop(u, Max(before))

\* the text of u after its first ':'
AfterFirstColon(u) == Drop(u, Min(Positions(u, ":")))

\* the text of u between its first ':' and the next ':' or the end
FirstColonSegment(u) ==
  LET colons == Positions(u, ":")
      later == colons \ {Min(colons)}
  IN SubSeq(u, Min(colons) + 1, IF later = {} THEN Len(u) ELSE Min(later) - 1)

S_httpScheme == <<"h", "t", "t", "p", ":", "/", "/">>
S_httpsScheme == <<"h", "t", "t", "p", "s", ":", "/", "/">>

\* the url of a 'url = U' line without a trailing ".git"
UrlOf(line) == TrimSuffix(TrimSpace(Drop(line, Len(S_url))), S_git)

\* the repository identity of a url as C8 states it
ClaimedRepoOfUrl(u) ==
  IF HasPrefix(u, S_httpScheme) \/ HasPrefix(u, S_httpsScheme) THEN LastTwoSegments(u)
  ELSE IF HasPrefix(u, S_gitAt) /\ Positions(u, ":") # {} THEN AfterFirstColon(u)
  ELSE <<>>

\* the repository identity of a url as C8 is amended
AmendedRepoOfUrl(u) ==
  IF HasPrefix(u, S_http)
  THEN (IF Positions(u, "/") # {} THEN LastTwoSegments(u) ELSE <<>>)
  ELSE IF HasPrefix(u, S_gitAt) /\ Positions(u, ":") # {} THEN FirstColonSegment(u)
  ELSE <<>>

SingleDeclaration ==
  ManifestParsed /\ Cardinality(PathLines) <= 1 /\ Cardinality(UrlLines) <= 1

DeclaredPath ==
  IF PathLines = {} THEN <<>>
  ELSE Drop(ManifestTrimmedLines[Min(PathLines)], Len(S_path))

\* C8 as stated: for a manifest with at most one path line and one url line, the
\* path is the text after 'path = '; the repository is the last two '/' segments
\* of an http:// or https:// url, the text after the first ':' of a git@ url,
\* both without a trailing ".git", and empty for any other url.
C8_RepoOfUrlAsStated ==
  SingleDeclaration =>
    /\ submodulePath = DeclaredPath
    /\ submoduleRepoName =
         IF UrlLines = {} THEN <<>>
         ELSE ClaimedRepoOfUrl(UrlOf(ManifestTrimmedLines[Min(UrlLines)]))

\* C8 amended: the repository is the last two '/' segments of a url that starts
\* with "http" and contains a '/', and the segment between the first ':' and the
\* next ':' (or the end) of a url that starts with "git@" and contains a ':'.
C8_RepoOfUrl ==
  SingleDeclaration =>
    /\ submodulePath = DeclaredPath
    /\ submoduleRepoName =
         IF UrlLines = {} THEN <<>>
         ELSE AmendedRepoOfUrl(UrlOf(ManifestTrimmedLines[Min(UrlLines)]))

\* C8 witness: an indented path line and a git@ url with a ".git" suffix
C8_Witness ==
  /\ SingleDeclaration
  /\ PathLines # {} /\ UrlLines # {}
  /\ ManifestTrimmedLines[Min(PathLines)] # Split(remote.manifest.content, NL)[Min(PathLines)]
  /\ HasPrefix(Drop(ManifestTrimmedLines[Min(UrlLines)], Len(S_url)), S_gitAt)
  /\ HasSuffix(ManifestTrimmedLines[Min(UrlLines)], S_git)
  /\ submodulePath = <<"f">>
  /\ submoduleRepoName = <<"o", "/", "e">>

\* the text of a message before its first newline
FirstLine(msg) ==
  IF Positions(msg, NL) = {} THEN msg ELSE Take(msg, Min(Positions(msg, NL)) - 1)

HasMessage(c) == c.hasMessage

ExpectedEntries(commits) ==
  LET kept == SelectSeq(commits, HasMessage)
  IN [i \in 1..Len(kept) |-> <<"*", " ">> \o FirstLine(kept[i].Message)]

\* the host comparison has been answered
HostCompared ==
  CallsOf("CompareCommits") # {} /\ remote.failAt # Min(CallsOf("CompareCommits"))

\* C9: the change list has one entry per commit of the comparison that has a
\* message, in the order returned, each "* " and the message up to its first
\* newline; commits without a message are skipped; no commits, no entries.
\* This holds of the host list and of the submodule list before the rewriting.
C9_ChangeEntries ==
  /\ HostCompared => changes = ExpectedEntries(Comparison(owner, repo, prevCommit, commit))
  /\ (pc = "replaceSubmoduleLinks" /\ Cardinality(CallsOf("CompareCommits")) = 2) =>
       smChanges = ExpectedEntries(SubmoduleComparison)

\* C9 witness: two commits, one without a message and one with several lines
C9_Witness ==
  /\ HostCompared
  /\ pc = "done"
  /\ Len(Comparison(owner, repo, prevCommit, commit)) = 2
  /\ \E i, j \in 1..2 :
       /\ ~remote.hostCommits[i].hasMessage
       /\ ContainsChar(remote.hostCommits[j].Message, NL)
  /\ Len(changes) = 1
  /\ ~ContainsChar(changes[1], NL)

\* the lines of a section body: the entries, or one empty line when there are none
BodyLines(entries) == IF entries = <<>> THEN << <<>> >> ELSE entries

IsSectionHeader(line) == HasPrefix(line, S_changesFrom)

\* C10: the emitted report is, line by line: the host header, the host entries,
\* an empty line, the submodule header with the submodule repository identity,
\* the rewritten submodule entries; it has exactly two section headers, and the
\* submodule section is there, with no entry, when no submodule was found.
C10_ReportSections ==
  pc = "done" =>
    LET lines == Split(finalNotes, NL)
    IN /\ lines = << S_changesFrom \o owner \o <<"/">> \o repo \o <<":">> >>
                  \o BodyLines(changes) \o << <<>> >>
                  \o << S_changesFrom \o submoduleRepoName \o <<":">> >>
                  \o BodyLines(smChanges) \o << <<>> >>
       /\ Cardinality({i \in 1..Len(lines) : IsSectionHeader(lines[i])}) = 2
       /\ (submodulePath = <<>> \/ submoduleRepoName = <<>>) => smChanges = <<>>
       /\ smChanges = ReplaceSubmoduleLinks(RawSubmoduleEntries,
                                            rnwConfig.GeneratedSubmoduleLink)

\* C10 witness: two host entries and one rewritten submodule entry
C10_Witness ==
  /\ pc = "done"
  /\ Len(changes) = 2
  /\ Len(smChanges) = 1
  /\ smChanges # RawSubmoduleEntries
  /\ outputFile # <<>>

\* .gitmodules has been read and decoded
ManifestRead ==
  /\ remote.manifest.status = "ok"
  /\ \E k \in CallsOf("GetContents") : remote.failAt # k

\* the repository identity that the scan of .gitmodules yields
DeclaredIdentity == ParseManifest(remote.manifest.content).repo

IsOwnerRepo(identity) == Len(Split(identity, "/")) = 2

\* the run is past getChangesForSubmodule without an error
SubmoduleStageSucceeded == pc \in {"replaceSubmoduleLinks", "setOutput", "done"}

\* C11: a host identity that does not split on '/' into exactly two parts ends
\* the run in an error before any remote call; a (non-empty) submodule identity
\* parsed from the manifest that does not split into exactly two parts makes the
\* run return an error, and no commit comparison is issued against it.
C11_MalformedIdentityIsFatal ==
  /\ ~IsOwnerRepo(config.Repository) =>
       /\ calls = <<>>
       /\ pc \in {"loadConfig", "start", "failed"}
       /\ pc = "failed" => err = "invalid repository format"
  /\ (ManifestRead /\ DeclaredIdentity # <<>> /\ ~IsOwnerRepo(DeclaredIdentity)) =>
       /\ ~SubmoduleStageSucceeded
       /\ Cardinality(CallsOf("CompareCommits")) <= 1

\* the release listing has completed without an explicit previous tag and has
\* yielded no hyphen-free tag name
NothingListed == config.PreviousTag = <<>> /\ HyphenFreeNames = {} /\ TagResolved

\* C12: without an explicit previous tag and with no hyphen-free tag name in the
\* listing, fetchPreviousTag returns without error and leaves the previous tag
\* empty; the run passes to the commit resolution, where, once the target tag
\* is resolved, the lookup of "tags/" fails with the previous-tag error; no
\* comparison is issued and no report is emitted.
C12_EmptyListingDefersFailure ==
  NothingListed =>
    /\ previousTag = <<>>
    /\ tags = <<>>
    /\ pc \in {"commitForTag", "commitForPreviousTag", "failed"}
    /\ pc = "failed" =>
         err \in {"failed to get commit for tag", "failed to get commit for previous tag"}
    /\ Cardinality(CallsOf("GetRef")) = 2 =>
         /\ pc = "failed"
         /\ err = "failed to get commit for previous tag"
         /\ calls[Len(calls)].args = <<S_tags>>
         /\ commit = remote.refs[config.Tag]
    /\ CallsOf("CompareCommits") = {}
    /\ finalNotes = <<>>
    /\ outputFile = <<>>

\* C12 witness: only a prerelease is listed, the target tag resolves, and the run
\* has failed at the previous tag without any transport failure
C12_Witness ==
  /\ NothingListed
  /\ AllReleases # <<>>
  /\ \E r \in Range(AllReleases) : HasHyphen(r)
  /\ remote.failAt = 0
  /\ pc = "failed"
  /\ err = "failed to get commit for previous tag"
  /\ commit # <<>>
  /\ prevCommit = <<>>

\* the url has one of the two forms from which getSubmodulePathRepo takes a
\* repository identity
Recognised(u) ==
  \/ HasPrefix(u, S_http) /\ Positions(u, "/") # {}
  \/ HasPrefix(u, S_gitAt) /\ Positions(u, ":") # {}

RecognisedUrlLines == {i \in UrlLines : Recognised(UrlOf(ManifestTrimmedLines[i]))}

\* C13: the parser returns, for each key on its own, the value of the last line
\* with that key: the path of the last 'path = ' line, and the repository of the
\* last 'url = ' line whose url has a recognised form, in whatever order the
\* lines of the two keys come; a key without such a line yields the empty string.
C13_LastValueWins ==
  ManifestParsed =>
    /\ submodulePath =
         IF PathLines = {} THEN <<>>
         ELSE Drop(ManifestTrimmedLines[Max(PathLines)], Len(S_path))
    /\ submoduleRepoName =
         IF RecognisedUrlLines = {} THEN <<>>
         ELSE AmendedRepoOfUrl(UrlOf(ManifestTrimmedLines[Max(RecognisedUrlLines)]))

\* C13 witness: two path lines and two url lines with different values, the
\* second path line being the last line of the file and the last url line not
\* being recognised
C13_Witness ==
  /\ ManifestParsed
  /\ Cardinality(PathLines) = 2
  /\ Cardinality(UrlLines) = 2
  /\ Max(PathLines) > Max(UrlLines)
  /\ Max(UrlLines) \notin RecognisedUrlLines
  /\ submodulePath = <<"f">>
  /\ submodulePath # Drop(ManifestTrimmedLines[Min(PathLines)], Len(S_path))
  /\ submoduleRepoName = <<"o", "/", "e">>

\* the manifest declares several submodules
SeveralDeclarations ==
  ManifestParsed /\ Cardinality(PathLines) >= 2 /\ Cardinality(RecognisedUrlLines) >= 2

\* C14: when the manifest declares several submodules, the path and the
\* repository returned are those of the first path line and of the first url
\* line of the scan; later declarations do not change them.
C14_FirstDeclarationUsed ==
  SeveralDeclarations =>
    /\ submodulePath = Drop(ManifestTrimmedLines[Min(PathLines)], Len(S_path))
    /\ submoduleRepoName =
         AmendedRepoOfUrl(UrlOf(ManifestTrimmedLines[Min(RecognisedUrlLines)]))

\* the configuration fields and the variables they are loaded from
ConfigKeys ==
  [ Token |-> "INPUT_GITHUB_TOKEN",
    Repository |-> "INPUT_REPOSITORY",
    Tag |-> "INPUT_TAG",
    PreviousTag |-> "INPUT_PREVIOUS_TAG",
    GeneratedSubmoduleLink |-> "INPUT_GENERATED_SUBMODULE_LINK" ]

\* the variable is set to a non-empty value
Given(key) == key \in DOMAIN environ /\ environ[key].set /\ environ[key].value # <<>>

StageOf(k) ==
  LET op == calls[k].op
      n == Cardinality({j \in 1..k : calls[j].op = op})
  IN CASE op = "ListReleases" -> 1
       [] op = "GetRef" -> 1 + n
       [] op = "CompareCommits" -> IF n = 1 THEN 4 ELSE 8
       [] op = "GetContents" -> 5
       [] op = "GetTree" -> 5 + n

\* the arguments with which a stage is to be called
StageArgs(stage) ==
  CASE stage = 2 -> <<S_tags \o config.Tag>>
    [] stage = 3 -> <<S_tags \o previousTag>>
    [] stage = 4 -> <<remote.refs[previousTag], remote.refs[config.Tag]>>
    [] stage = 5 -> <<S_gitmodules, remote.refs[config.Tag]>>
    [] stage = 6 -> <<remote.refs[previousTag]>>
    [] stage = 7 -> <<remote.refs[config.Tag]>>
    [] stage = 8 -> <<FindSubmoduleCommit(TreeOf(remote.refs[previousTag]),
                                          ParseManifest(remote.manifest.content).path),
                      FindSubmoduleCommit(TreeOf(remote.refs[config.Tag]),
                                          ParseManifest(remote.manifest.content).path)>>

\* C16: the remote calls of a run are, in this order, the release listing (page
\* after page, none with an explicit previous tag), the lookup of the target
\* tag, the lookup of the previous tag, the host comparison, the manifest read
\* at the current commit, the tree listing at the previous commit, the tree
\* listing at the current commit and the submodule comparison; every call but
\* the last has succeeded; the rewriting comes after the last call and before
\* the emission, and the emission is the last step.
C16_StagesInOrder ==
  /\ calls # <<>> => StageOf(1) = IF config.PreviousTag # <<>> THEN 2 ELSE 1
  /\ \A k \in 1..(Len(calls) - 1) :
       /\ StageOf(k + 1) = StageOf(k) + 1 \/ (StageOf(k) = 1 /\ StageOf(k + 1) \in {1, 2})
       /\ ~StageFailed(k)
  /\ \A k \in 1..Len(calls) :
       /\ StageOf(k) <= 8
       /\ StageOf(k) \in 2..7 => calls[k].args = StageArgs(StageOf(k))
       /\ StageOf(k) \in 1..7 => <<calls[k].owner, calls[k].repo>> = <<owner, repo>>
       /\ StageOf(k) = 8 =>
            /\ calls[k].args = StageArgs(8)
            /\ <<>> \notin Range(calls[k].args)
            /\ <<calls[k].owner, calls[k].repo>> = Split(DeclaredIdentity, "/")
  /\ pc \in {"replaceSubmoduleLinks", "setOutput", "done"} =>
       /\ calls # <<>>
       /\ StageOf(Len(calls)) \in {5, 8}
       /\ ~StageFailed(Len(calls))
  /\ pc = "replaceSubmoduleLinks" => smChanges = RawSubmoduleEntries
  /\ pc \in {"setOutput", "done"} =>
       smChanges = ReplaceSubmoduleLinks(RawSubmoduleEntries, rnwConfig.GeneratedSubmoduleLink)
  /\ (finalNotes # <<>> \/ outputFile # <<>>) => pc = "done"

\* C16 witness: a completed run with two pages of releases, all eight stages,
\* and an entry that the rewriting changed
C16_Witness ==
  /\ pc = "done"
  /\ [k \in 1..Len(calls) |-> StageOf(k)] = <<1, 1, 2, 3, 4, 5, 6, 7, 8>>
  /\ smChanges # RawSubmoduleEntries
  /\ outputFile # <<>>

\* the identifier of the first gitlink with the path in a tree
PinnedCommit(sha, path) ==
  LET entries == TreeOf(sha)
  IN entries[Min(GitlinkPositions(entries, path))].SHA

\* the length of the abbreviation that getChangesForSubmodule prints
AbbrevLen == 8

\* C17: the first comparison is issued on the host with base = the commit of
\* the previous tag and head = the commit of the target tag; the second is
\* issued on the submodule with base = the commit pinned in the tree of the
\* previous host commit and head = the commit pinned in the tree of the current
\* host commit, both as the full identifiers of the tree entries.
C17_SameReleaseWindow ==
  \A k \in CallsOf("CompareCommits") :
    LET base == calls[k].args[1]
        head == calls[k].args[2]
    IN IF k = Min(CallsOf("CompareCommits"))
       THEN /\ <<calls[k].owner, calls[k].repo>> = <<owner, repo>>
            /\ base = remote.refs[previousTag]
            /\ head = remote.refs[config.Tag]
       ELSE /\ <<calls[k].owner, calls[k].repo>> = Split(DeclaredIdentity, "/")
            /\ base = PinnedCommit(remote.refs[previousTag], submodulePath)
            /\ head = PinnedCommit(remote.refs[config.Tag], submodulePath)
            /\ Len(base) > AbbrevLen /\ Len(head) > AbbrevLen

\* C17 witness: a completed run whose two pinned commits differ and have the
\* same first eight characters, and whose submodule change list is not empty
C17_Witness ==
  /\ pc = "done"
  /\ Cardinality(CallsOf("CompareCommits")) = 2
  /\ oldSMCommit # newSMCommit
  /\ Take(oldSMCommit, AbbrevLen) = Take(newSMCommit, AbbrevLen)
  /\ calls[Len(calls)].args = <<oldSMCommit, newSMCommit>>
  /\ remote.refs[previousTag] # remote.refs[config.Tag]
  /\ smChanges # <<>>

\* the number of pages that the host has
LastPage == Len(remote.pages)

\* the release listing is over: fetchPreviousTag has returned, or run has not
\* got to it
ListingOver == pc \notin {"loadConfig", "start", "fetchPreviousTag"}

\* the tag names of the page that are set, not empty and hyphen-free
NamesOfPage(p) ==
  LET kept == SelectSeq(ReleasesOfPage(p), LAMBDA r : r.hasTagName /\ r.TagName # <<>>
                                                      /\ NoHyphen(r))
  IN [i \in 1..Len(kept) |-> kept[i].TagName]

\* What holds of the listing loop at every moment: the k-th listing request is
\* the k-th call and asks for page k; a request is followed by another one only
\* if it succeeded and reported a last page greater than its own; no more than
\* max(LastPage, 1) pages are requested; when the loop is left without a failed
\* request, the last response reported a last page not greater than its own,
\* exactly the pages 1..max(LastPage, 1) were requested, and the tag names of
\* all of them are in the list from which the previous tag is chosen.
ListingLoop ==
  LET n == Cardinality(CallsOf("ListReleases"))
  IN /\ CallsOf("ListReleases") = 1..n
     /\ \A k \in 1..n : calls[k].args = <<k>>
     /\ \A k \in 1..(n - 1) : remote.failAt # k /\ LastPageOf(k) > k
     /\ n <= Max({LastPage, 1})
     /\ (pc = "fetchPreviousTag" /\ config.PreviousTag = <<>>) => page = n + 1
     /\ (ListingOver /\ n > 0) =>
          IF remote.failAt = n
          THEN pc = "failed" /\ err = "fetching previous tag" /\ Len(calls) = n
          ELSE /\ LastPageOf(n) <= n
               /\ n = Max({LastPage, 1})
               /\ tags = Flatten([p \in 1..n |-> NamesOfPage(p)])
               /\ tags # <<>> => previousTag \in Range(tags)

\* C18: the listing loop requests the pages 1, 2, 3, ... in increasing order,
\* each at most once; it stops after the first response that reports a last
\* page not greater than the page requested (0 on the final page) or at the
\* first failed request; with a host of LastPage pages it requests exactly the
\* pages 1..max(LastPage, 1), all of whose tag names take part in the
\* resolution; and it terminates.
C18_ListingTerminates ==
  /\ []ListingLoop
  /\ (pc = "fetchPreviousTag") ~> ListingOver

\* C18 witness: three pages are requested and the previous tag is a name of the
\* third page only
C18_Witness ==
  /\ pc = "commitForTag"
  /\ CallsOf("ListReleases") = 1..3
  /\ previousTag \in Range(NamesOfPage(3))
  /\ previousTag \notin Range(NamesOfPage(1)) \cup Range(NamesOfPage(2))

S_header == <<"#", "#", " ">>
S_entry == <<"*", " ">>

\* How the reader of the output file takes a framed value: the first line is
\* name<<EOF, the value is the lines up to the first line that is the end
\* marker, joined by newlines, and rest is what follows the marker.
Unframed(text) ==
  LET lines == Split(text, NL)
      opening == <<"<", "<">> \o S_EOF
      markers == {i \in 2..Len(lines) : lines[i] = S_EOF}
  IN IF ~HasSuffix(lines[1], opening) \/ markers = {}
     THEN [ok |-> FALSE, name |-> <<>>, value |-> <<>>, rest |-> <<>>]
     ELSE [ok |-> TRUE,
           name |-> Take(lines[1], Len(lines[1]) - Len(opening)),
           value |-> Join(SubSeq(lines, 2, Min(markers) - 1), NL),
           rest |-> SubSeq(lines, Min(markers) + 1, Len(lines))]

\* C19: every line of an emitted report is empty, a header beginning with "## "
\* or an entry beginning with "* ", also after the rewriting, so no line is the
\* end marker; and what setOutput has written is read back as the value
\* release_notes = the report, with nothing after the end marker.
C19_NoEndMarkerLine ==
  pc = "done" =>
    LET lines == Split(finalNotes, NL)
    IN /\ \A i \in 1..Len(lines) :
            /\ lines[i] = <<>> \/ HasPrefix(lines[i], S_header) \/ HasPrefix(lines[i], S_entry)
            /\ lines[i] # S_EOF
       /\ outputFile # <<>> =>
            Unframed(outputFile[1]) =
              [ok |-> TRUE, name |-> S_release_notes, value |-> finalNotes, rest |-> << <<>> >>]

\* C19 witness: a written report with an entry for a commit whose message is
\* two lines "EOF"
C19_Witness ==
  /\ pc = "done"
  /\ outputFile # <<>>
  /\ \E c \in Range(remote.hostCommits) : c.hasMessage /\ c.Message = M_eof
  /\ S_entry \o S_EOF \in Range(changes)
  /\ Len(changes) = 2

====
